---- MODULE Spec2Model ----
(***************************************************************************)
(* ds_oc: a kernel module that overwrites the bInterval of the interrupt   *)
(* endpoints of a Sony DualSense controller's HID interface, resets the    *)
(* device so that the new value takes effect, and restores the saved       *)
(* values when the module is unloaded.  Model of src/ds_oc.c.              *)
(*                                                                         *)
(* Spec      every handler (notifier callback, parameter setter, init,     *)
(*           exit) runs atomically.                                        *)
(* SpecEngine  the engine alone, atomically, on an acquired device.        *)
(* SpecConc  notifier callbacks run on several threads and interleave at   *)
(*           the reads and writes of dualsense_device.                     *)
(* SpecSteps the setter and the engine call by call, without hotplug.      *)
(* SpecRace  the setter and the engine call by call, interleaved with the  *)
(*           steps of a notifier callback.                                 *)
(***************************************************************************)
EXTENDS Integers, Sequences, FiniteSets, TLC

(***************************************************************************)
(* Program constants.                                                      *)
(***************************************************************************)
MAX_PATCHED_EPS == 2

DS_VID == 1356

DS_PID == 3302

USB_CLASS_HID == 3

USHRT_MOD == 65536

U8_MOD == 256

NULL == "NULL"

(***************************************************************************)
(* Bounds of the model.                                                    *)
(***************************************************************************)
MaxThreads == 2

(***************************************************************************)
(* The devices on the bus.  A device identifier stands for one struct      *)
(* usb_device object; the object lives while the device is connected or a  *)
(* reference to it is held.                                                *)
(*   d1  a DualSense: an audio interface, then the HID interface with one  *)
(*       interrupt IN and one interrupt OUT endpoint.                      *)
(*   d2  a matching device with an unbound interface slot, a HID interface *)
(*       with three interrupt endpoints and a bulk endpoint, and a second  *)
(*       HID interface.                                                    *)
(*   d3  a device of another vendor.                                       *)
(*   d4  a matching device that has no active configuration.               *)
(***************************************************************************)
Devices == {"d1", "d2", "d3", "d4"}

Ep(addr, type) == [bEndpointAddress |-> addr, type |-> type]

Ifc(present, class, eps) ==
    [present |-> present, bInterfaceClass |-> class, endpoint |-> eps]

Descriptor(d) ==
    IF d = "d3" THEN [idVendor |-> 1133, idProduct |-> 49271]
    ELSE [idVendor |-> DS_VID, idProduct |-> DS_PID]

\* actconfig->interface[] of a device, NULL when it has no active configuration.
ActConfig(d) ==
    CASE d = "d1" -> << Ifc(TRUE, 1, << Ep(1, "isoc") >>),
                        Ifc(TRUE, USB_CLASS_HID, << Ep(132, "int"), Ep(3, "int") >>) >>
      [] d = "d2" -> << Ifc(FALSE, USB_CLASS_HID, << >>),
                        Ifc(TRUE, USB_CLASS_HID,
                            << Ep(129, "int"), Ep(2, "bulk"), Ep(3, "int"), Ep(133, "int") >>),
                        Ifc(TRUE, USB_CLASS_HID, << Ep(134, "int") >>) >>
      [] d = "d3" -> << Ifc(TRUE, USB_CLASS_HID, << Ep(129, "int") >>) >>
      [] OTHER    -> NULL

\* The values the hardware reports for bInterval.
OrigIntervals == {1, 6}

\* What is written to the 'rate' parameter: 0, in-range values, values above
\* 255, and a value param_set_ushort rejects.
RawValues == {0, 42, 256, 9999, 65536}

Threads == 1 .. MaxThreads

(***************************************************************************)
(* State.                                                                  *)
(***************************************************************************)
VARIABLES
    dualsense_device,           \* the managed device, or NULL
    configured_interval,        \* the 'rate' parameter
    restore_infos,              \* array of MAX_PATCHED_EPS ep_restore_info
    num_actually_patched_eps,   \* number of valid entries of restore_infos
    bInterval,                  \* bInterval[d][i][e]: endpoint descriptors
    orig,                       \* what the hardware of d reports (constant)
    connected,                  \* connected[d]: d is on the bus
    held,                       \* held[d]: references this module holds on d
    phase,                      \* "loaded", "enumerated", "running", "unloaded";
                                \* "engine" in SpecEngine, "steps" in SpecSteps
    lastOp,                     \* the handler that ran last
    lastCall,                   \* the latest engine invocation on the managed device
    pc,                         \* SpecConc: position of each notifier thread
    tdev,                       \* SpecConc: the device argument of each thread
    leaked,                     \* SpecConc: references overwritten in the slot
    setter,                     \* SpecSteps, SpecRace: the stepwise invocation
    faults                      \* SpecRace: accesses to a device not owned

vars == << dualsense_device, configured_interval, restore_infos,
           num_actually_patched_eps, bInterval, orig, connected, held, phase,
           lastOp, lastCall, pc, tdev, leaked, setter, faults >>

(***************************************************************************)
(* Helpers: the conditions and conversions of the code.                    *)
(***************************************************************************)
\* Mutant: the vendor and product of the device are not compared.
Matches_Mut(d) == TRUE

\* on_usb_notify line 146, check_existing_device_cb line 183.
Matches(d) ==
    Descriptor(d).idVendor = DS_VID /\ Descriptor(d).idProduct = DS_PID

\* Mutant: the slot is taken to be free whatever it holds.
SlotIsFree_Mut(slot) == TRUE

\* "dualsense_device == NULL" (lines 152, 184).
SlotIsFree(slot) == slot = NULL

\* usb_endpoint_is_int_in(ep_desc) || usb_endpoint_is_int_out(ep_desc).
IsInterruptEp(ep) == ep.type = "int"

\* Mutant: the capacity check lets one endpoint too many through.
HasCapacity_Mut(n) == n <= MAX_PATCHED_EPS

\* "num_actually_patched_eps < MAX_PATCHED_EPS" (line 86).
HasCapacity(n) == n < MAX_PATCHED_EPS

\* Mutant: the interval is written and reported changed whatever it holds.
NeedsWrite_Mut(cur, target) == TRUE

\* "ep_desc->bInterval != target_binterval" (line 101).
NeedsWrite(cur, target) == cur # target

\* Mutant: a patch keeps the entries of the generation before.
StartCount_Mut(n, restore) == n

\* Mutant: every invocation empties the store, a restore too.
StartCount_Clear(n, restore) == 0

\* Lines 39-42: a patch empties the store, a restore keeps its count.
StartCount(n, restore) == IF restore THEN n ELSE 0

\* Lines 104-108: the count after an interval was written.
CountAfterWrite(n, restore) == IF restore THEN n ELSE n + 1

\* Storing an unsigned short into the __u8 field bInterval.
ToU8(v) == v % U8_MOD

\* Mutant: the upper limit is not enforced.
ClampInterval_Mut(v) == IF v = 0 THEN 1 ELSE v

\* The validation of configured_interval in ds_oc_init and on_interval_changed.
ClampInterval(v) ==
    IF v = 0 THEN 1
    ELSE IF v > 255 THEN 255
    ELSE v

\* param_set_ushort: the value is stored when it fits an unsigned short.
ParamSetUshort(raw, old) ==
    IF raw \in 0 .. (USHRT_MOD - 1)
    THEN [ret |-> 0, value |-> raw]
    ELSE [ret |-> -34, value |-> old]

\* Mutant: the first entry is taken without comparing the address.
FindRestoreInfo_Mut(infos, n, addr) == IF n = 0 THEN 0 ELSE 1

\* The loop over restore_infos[0 .. num-1]: the index (from 1) of the first
\* entry with this address, 0 when there is none.
FindRestoreInfo(infos, n, addr) ==
    LET hits == { k \in 1 .. n : infos[k].ep_address = addr }
    IN  IF hits = {} THEN 0
        ELSE CHOOSE k \in hits : \A j \in hits : k <= j

\* The loop over actconfig->interface[]: the index of the first interface
\* that is there and is of class HID, 0 when there is none.  The loop
\* breaks after that interface.
HidInterface(cfg) ==
    LET hits == { i \in 1 .. Len(cfg) :
                    cfg[i].present /\ cfg[i].bInterfaceClass = USB_CLASS_HID }
    IN  IF hits = {} THEN 0
        ELSE CHOOSE i \in hits : \A j \in hits : i <= j

\* Mutant: the reference is not given back.
UsbPutDev_Mut(h, d) == h

\* usb_get_dev / usb_put_dev on the references this module holds.
UsbGetDev(h, d) == [h EXCEPT ![d] = @ + 1]

UsbPutDev(h, d) == [h EXCEPT ![d] = @ - 1]

\* The usb_device object is freed when it is off the bus and unreferenced;
\* the identifier then stands for the object a later plug creates, whose
\* descriptors are read from the hardware.
Released(ival, d, conn, h) ==
    IF d # NULL /\ ~conn[d] /\ h[d] = 0
    THEN [ival EXCEPT ![d] = orig[d]]
    ELSE ival

(***************************************************************************)
(* patch_or_restore_dualsense_endpoints.  The walk carries                 *)
(*   w = [ival, infos, num, changed, written]                              *)
(* where ival is the bInterval of the managed device's endpoints and       *)
(* written the set of endpoints <<i, e>> whose bInterval was assigned.     *)
(* The record of an invocation (lastCall) keeps the mode, the device, the  *)
(* target, the intervals before the walk, the endpoints written and the    *)
(* calls of the reset step.                                                *)
(***************************************************************************)
\* Lines 100-110.
WriteIfDifferent(w, i, e, target, restore) ==
    IF NeedsWrite(w.ival[i][e], target)
    THEN [w EXCEPT !.ival[i][e] = ToU8(target),
                   !.changed = TRUE,
                   !.written = @ \cup { << i, e >> },
                   !.num = CountAfterWrite(@, restore)]
    ELSE w

\* Lines 67-83, then 100-110.
RestoreEndpoint(w, i, e, addr) ==
    LET k == FindRestoreInfo(w.infos, w.num, addr)
    IN  IF k = 0 THEN w
        ELSE WriteIfDifferent(w, i, e, w.infos[k].original_interval, TRUE)

\* Lines 84-98, then 100-110.
PatchEndpoint(w, i, e, addr, target) ==
    IF HasCapacity(w.num)
    THEN WriteIfDifferent(
             [w EXCEPT !.infos[w.num + 1] =
                 [ep_address |-> addr, original_interval |-> w.ival[i][e]]],
             i, e, target, FALSE)
    ELSE w

\* Lines 59-112: the endpoints e, e+1, ... of interface i.
RECURSIVE WalkEndpoints(_, _, _, _, _, _)
WalkEndpoints(w, eps, i, e, restore, target) ==
    IF e > Len(eps) THEN w
    ELSE IF ~IsInterruptEp(eps[e])
         THEN WalkEndpoints(w, eps, i, e + 1, restore, target)
         ELSE WalkEndpoints(
                  IF restore
                  THEN RestoreEndpoint(w, i, e, eps[e].bEndpointAddress)
                  ELSE PatchEndpoint(w, i, e, eps[e].bEndpointAddress, target),
                  eps, i, e + 1, restore, target)

\* Mutant: the device is reset whether or not an interval was written.
ResetStep_Mut(changed, lockOk, resetOk) ==
    [lockCalls |-> 1, resetCalls |-> 1,
     unlockCalls |-> IF lockOk THEN 1 ELSE 0]

\* Lines 119-138: lock, reset, unlock.  lockOk and resetOk are the outcomes
\* of usb_lock_device_for_reset and usb_reset_device; the outcome of the
\* reset only selects the message that is logged.
ResetStep(changed, lockOk, resetOk) ==
    IF changed
    THEN [lockCalls |-> 1, resetCalls |-> 1,
          unlockCalls |-> IF lockOk THEN 1 ELSE 0]
    ELSE [lockCalls |-> 0, resetCalls |-> 0, unlockCalls |-> 0]

NoCall ==
    [invoked |-> FALSE, restore |-> FALSE, dev |-> NULL, target |-> 0,
     before |-> << >>, changed |-> FALSE, written |-> {}, lockCalls |-> 0,
     resetCalls |-> 0, unlockCalls |-> 0]

\* The module's data as one record, for the operators that model functions.
Mem(dev, h, ival, infos, num, call, eng) ==
    [dev |-> dev, held |-> h, ival |-> ival, infos |-> infos, num |-> num,
     call |-> call, eng |-> eng]

\* Lines 35-117: the count is reset when patching, then the endpoints of
\* the first HID interface are walked.  m.dev has an active configuration.
EngineWalk(m, restore, cfgval) ==
    LET cfg == ActConfig(m.dev)
        i   == HidInterface(cfg)
        w0  == [ival |-> m.ival[m.dev], infos |-> m.infos,
                num |-> StartCount(m.num, restore),
                changed |-> FALSE, written |-> {}]
    IN  IF i = 0 THEN w0
        ELSE WalkEndpoints(w0, cfg[i].endpoint, i, 1, restore, cfgval)

\* The record of an invocation whose walk gave w and whose reset step made
\* the calls r.
CallRecord(m, w, restore, cfgval, r) ==
    [invoked |-> TRUE, restore |-> restore, dev |-> m.dev, target |-> cfgval,
     before |-> m.ival[m.dev], changed |-> w.changed, written |-> w.written,
     lockCalls |-> r.lockCalls, resetCalls |-> r.resetCalls,
     unlockCalls |-> r.unlockCalls]

\* Mutant: the writes of the walk are undone when the lock or the reset
\* fails.
EngineResult_Mut(m, w, restore, cfgval, lockOk, resetOk) ==
    IF lockOk /\ resetOk
    THEN [m EXCEPT !.ival[m.dev] = w.ival, !.infos = w.infos, !.num = w.num,
                   !.eng = TRUE,
                   !.call = CallRecord(m, w, restore, cfgval,
                                       ResetStep(w.changed, lockOk, resetOk))]
    ELSE [m EXCEPT !.eng = TRUE,
                   !.call = CallRecord(m, w, restore, cfgval,
                                       ResetStep(w.changed, lockOk, resetOk))]

\* Lines 100-139: what an invocation leaves behind.  The descriptors and
\* the store are written during the walk; the reset step that follows
\* only logs what usb_lock_device_for_reset and usb_reset_device returned.
EngineResult(m, w, restore, cfgval, lockOk, resetOk) ==
    [m EXCEPT !.ival[m.dev] = w.ival, !.infos = w.infos, !.num = w.num,
              !.eng = TRUE,
              !.call = CallRecord(m, w, restore, cfgval,
                                  ResetStep(w.changed, lockOk, resetOk))]

\* patch_or_restore_dualsense_endpoints(restore) on the module's data m,
\* with configured_interval = cfgval.
Engine(m, restore, cfgval, lockOk, resetOk) ==
    IF m.dev = NULL \/ ActConfig(m.dev) = NULL
    THEN [m EXCEPT !.eng = TRUE,
                   !.call = [NoCall EXCEPT !.invoked = TRUE, !.restore = restore,
                                           !.dev = m.dev, !.target = cfgval]]
    ELSE EngineResult(m, EngineWalk(m, restore, cfgval), restore, cfgval,
                      lockOk, resetOk)

(***************************************************************************)
(* The handlers, as functions on the module's data.                        *)
(***************************************************************************)
\* on_usb_notify(USB_DEVICE_ADD, d), lines 146-161.
OnUsbNotifyAdd(m, d, cfgval, lockOk, resetOk) ==
    IF ~Matches(d) THEN m
    ELSE IF SlotIsFree(m.dev)
         THEN Engine([m EXCEPT !.dev = d, !.held = UsbGetDev(m.held, d)],
                     FALSE, cfgval, lockOk, resetOk)
         ELSE m

\* Mutant: the Remove handler leaves the count of the store as it is.
OnUsbNotifyRemove_Mut(m, d) ==
    IF ~Matches(d) THEN m
    ELSE IF m.dev = d
         THEN [m EXCEPT !.held = UsbPutDev(m.held, m.dev),
                        !.dev = NULL,
                        !.call = NoCall]
         ELSE m

\* on_usb_notify(USB_DEVICE_REMOVE, d), lines 146-148 and 163-172.
OnUsbNotifyRemove(m, d) ==
    IF ~Matches(d) THEN m
    ELSE IF m.dev = d
         THEN [m EXCEPT !.held = UsbPutDev(m.held, m.dev),
                        !.dev = NULL,
                        !.num = 0,
                        !.call = NoCall]
         ELSE m

\* check_existing_device_cb(d), lines 182-196: the return value and the data.
CheckExistingDeviceCb(m, d, cfgval, lockOk, resetOk) ==
    IF Matches(d)
    THEN IF SlotIsFree(m.dev)
         THEN [ret |-> 1,
               m |-> Engine([m EXCEPT !.dev = d, !.held = UsbGetDev(m.held, d)],
                            FALSE, cfgval, lockOk, resetOk)]
         ELSE [ret |-> 1, m |-> m]
    ELSE [ret |-> 0, m |-> m]

\* usb_for_each_dev(NULL, check_existing_device_cb), line 219: the devices on
\* the bus are visited in the order `order` from position k, until a visit
\* returns non-zero.
RECURSIVE UsbForEachDev(_, _, _, _, _, _, _)
UsbForEachDev(m, order, k, conn, cfgval, lockOk, resetOk) ==
    IF k > Len(order) THEN m
    ELSE IF ~conn[order[k]]
         THEN UsbForEachDev(m, order, k + 1, conn, cfgval, lockOk, resetOk)
         ELSE LET r == CheckExistingDeviceCb(m, order[k], cfgval, lockOk, resetOk)
              IN  IF r.ret # 0 THEN r.m
                  ELSE UsbForEachDev(r.m, order, k + 1, conn, cfgval, lockOk, resetOk)

\* The orders in which the bus may list its devices.
BusOrders ==
    { o \in [1 .. Cardinality(Devices) -> Devices] :
        \A a, b \in DOMAIN o : a # b => o[a] # o[b] }

(***************************************************************************)
(* Initial state: the module is loaded, ds_oc_init has not run yet.        *)
(***************************************************************************)
OrigChoices ==
    { [d \in Devices |->
         CASE d = "d1" -> << << 1 >>, << a, b >> >>
           [] d = "d2" -> << << >>, << c, 0, e, f >>, << 6 >> >>
           [] d = "d3" -> << << 6 >> >>
           [] OTHER    -> << >>] :
      a \in OrigIntervals, b \in OrigIntervals, c \in OrigIntervals,
      e \in OrigIntervals, f \in OrigIntervals }

\* Spec: a DualSense reports 6 for both endpoints; the first interrupt
\* endpoint of d2 reports any of the values.
BusOrigs ==
    { o \in OrigChoices :
        /\ o["d1"][2] = << 6, 6 >>
        /\ o["d2"][2][3] = 6
        /\ o["d2"][2][4] = 6 }

NoOp == [op |-> "none", dev |-> NULL, raw |-> 0, ret |-> 0, engine |-> FALSE]

Op(name, d, raw, ret, eng) ==
    [op |-> name, dev |-> d, raw |-> raw, ret |-> ret, engine |-> eng]

\* The stepwise invocation: where it stands, its mode, the device pointer
\* it read at line 30, and the calls of its reset step.
SetterIdle ==
    [pc |-> "idle", restore |-> FALSE, dev |-> NULL, changed |-> FALSE,
     lockOk |-> FALSE, resetOk |-> FALSE, lockHeld |-> FALSE,
     lockCalls |-> 0, resetCalls |-> 0, unlockCalls |-> 0]

InitData ==
    /\ configured_interval = 1
    /\ restore_infos =
         [k \in 1 .. MAX_PATCHED_EPS |-> [ep_address |-> 0, original_interval |-> 0]]
    /\ num_actually_patched_eps = 0
    /\ lastOp = NoOp
    /\ lastCall = NoCall
    /\ pc = [t \in Threads |-> "idle"]
    /\ tdev = [t \in Threads |-> NULL]
    /\ leaked = {}
    /\ setter = SetterIdle
    /\ faults = {}

Init ==
    /\ InitData
    /\ phase = "loaded"
    /\ orig \in BusOrigs
    /\ bInterval = orig
    /\ dualsense_device = NULL
    /\ connected = [d \in Devices |-> FALSE]
    /\ held = [d \in Devices |-> 0]

\* The module's data in the current state.
Cur ==
    Mem(dualsense_device, held, bInterval, restore_infos,
        num_actually_patched_eps, lastCall, FALSE)

\* The next state holds the data m; conn is the next value of connected and
\* d the device whose object this step may have freed.
Commit(m, conn, d) ==
    /\ dualsense_device' = m.dev
    /\ held' = m.held
    /\ bInterval' = Released(m.ival, d, conn, m.held)
    /\ restore_infos' = m.infos
    /\ num_actually_patched_eps' = m.num
    /\ lastCall' = m.call
    /\ connected' = conn

(***************************************************************************)
(* Actions of Spec.                                                        *)
(***************************************************************************)
Registered == phase = "running"

Loaded == phase \in {"loaded", "enumerated", "running", "engine"}

\* A device appears on the bus while the notifier is not registered.
Plug(d) ==
    /\ phase \in {"loaded", "enumerated"}
    /\ ~connected[d] /\ held[d] = 0
    /\ connected' = [connected EXCEPT ![d] = TRUE]
    /\ lastOp' = Op("plug", d, 0, 0, FALSE)
    /\ UNCHANGED << dualsense_device, configured_interval, restore_infos,
                    num_actually_patched_eps, bInterval, orig, held, phase,
                    lastCall, pc, tdev, leaked,
                    setter, faults >>

\* A device leaves the bus while the notifier is not registered.
Unplug(d) ==
    /\ phase \in {"loaded", "enumerated"}
    /\ connected[d]
    /\ Commit(Cur, [connected EXCEPT ![d] = FALSE], d)
    /\ lastOp' = Op("unplug", d, 0, 0, FALSE)
    /\ UNCHANGED << configured_interval, orig, phase, pc, tdev, leaked,
                    setter, faults >>

\* ds_oc_init up to and including usb_for_each_dev (lines 199-219).
ModInitEnumerate ==
    /\ phase = "loaded"
    /\ \E order \in BusOrders, lockOk \in BOOLEAN, resetOk \in BOOLEAN :
         LET cfgval == ClampInterval(configured_interval)
             m == UsbForEachDev(Cur, order, 1, connected, cfgval, lockOk, resetOk)
         IN  /\ configured_interval' = cfgval
             /\ Commit(m, connected, NULL)
             /\ lastOp' = Op("enumerate", m.dev, 0, 0, m.eng)
    /\ phase' = "enumerated"
    /\ UNCHANGED << orig, pc, tdev, leaked,
                    setter, faults >>

\* usb_register_notify and the return of ds_oc_init (lines 222-224).
ModInitRegister ==
    /\ phase = "enumerated"
    /\ phase' = "running"
    /\ lastOp' = Op("register", NULL, 0, 0, FALSE)
    /\ UNCHANGED << dualsense_device, configured_interval, restore_infos,
                    num_actually_patched_eps, bInterval, orig, connected, held,
                    lastCall, pc, tdev, leaked,
                    setter, faults >>

\* A device is plugged in and on_usb_notify(USB_DEVICE_ADD, d) runs.
Add(d) ==
    /\ Registered
    /\ ~connected[d] /\ held[d] = 0
    /\ \E lockOk \in BOOLEAN, resetOk \in BOOLEAN :
         LET m == OnUsbNotifyAdd(Cur, d, configured_interval, lockOk, resetOk)
         IN  /\ Commit(m, [connected EXCEPT ![d] = TRUE], NULL)
             /\ lastOp' = Op("add", d, 0, 0, m.eng)
    /\ UNCHANGED << configured_interval, orig, phase, pc, tdev, leaked,
                    setter, faults >>

\* A device is unplugged and on_usb_notify(USB_DEVICE_REMOVE, d) runs.
Remove(d) ==
    /\ Registered
    /\ connected[d]
    /\ LET m == OnUsbNotifyRemove(Cur, d)
       IN  /\ Commit(m, [connected EXCEPT ![d] = FALSE], d)
           /\ lastOp' = Op("remove", d, 0, 0, m.eng)
    /\ UNCHANGED << configured_interval, orig, phase, pc, tdev, leaked,
                    setter, faults >>

\* on_interval_changed: 'rate' is written with raw (lines 245-267).
SetRate(raw) ==
    /\ Loaded
    /\ \E lockOk \in BOOLEAN, resetOk \in BOOLEAN :
         LET p == ParamSetUshort(raw, configured_interval)
             cfgval == IF p.ret = 0 THEN ClampInterval(p.value) ELSE p.value
             m == IF p.ret = 0 /\ ~SlotIsFree(dualsense_device)
                  THEN Engine(Cur, FALSE, cfgval, lockOk, resetOk)
                  ELSE Cur
         IN  /\ configured_interval' = cfgval
             /\ Commit(m, connected, NULL)
             /\ lastOp' = Op("setrate", dualsense_device, raw, p.ret, m.eng)
    /\ UNCHANGED << orig, phase, pc, tdev, leaked,
                    setter, faults >>

\* ds_oc_exit (lines 228-239).
ModExit ==
    /\ Registered
    /\ \E lockOk \in BOOLEAN, resetOk \in BOOLEAN :
         LET m == IF ~SlotIsFree(dualsense_device)
                  THEN LET r == Engine(Cur, TRUE, configured_interval, lockOk, resetOk)
                       IN  [r EXCEPT !.held = UsbPutDev(r.held, r.dev), !.dev = NULL]
                  ELSE Cur
         IN  /\ Commit(m, connected, dualsense_device)
             /\ lastOp' = Op("exit", dualsense_device, 0, 0, m.eng)
    /\ phase' = "unloaded"
    /\ UNCHANGED << configured_interval, orig, pc, tdev, leaked,
                    setter, faults >>

Next ==
    \/ \E d \in Devices : Plug(d)
    \/ \E d \in Devices : Unplug(d)
    \/ ModInitEnumerate
    \/ ModInitRegister
    \/ \E d \in Devices : Add(d)
    \/ \E d \in Devices : Remove(d)
    \/ \E raw \in RawValues : SetRate(raw)
    \/ ModExit

Spec == Init /\ [][Next]_vars

(***************************************************************************)
(* SpecEngine: patch_or_restore_dualsense_endpoints on its own.  A         *)
(* matching device has been acquired (line 153) and not patched yet; the   *)
(* engine is then invoked any number of times, to patch through            *)
(* on_interval_changed and to restore as ds_oc_exit does at line 234.      *)
(***************************************************************************)
InitEngine ==
    /\ InitData
    /\ phase = "engine"
    /\ orig \in OrigChoices
    /\ bInterval = orig
    /\ dualsense_device \in { d \in Devices : Matches(d) }
    /\ connected = [d \in Devices |-> d = dualsense_device]
    /\ held = [d \in Devices |-> IF d = dualsense_device THEN 1 ELSE 0]

\* patch_or_restore_dualsense_endpoints(true), the device stays managed.
EngineRestore ==
    /\ phase = "engine"
    /\ \E lockOk \in BOOLEAN, resetOk \in BOOLEAN :
         LET m == Engine(Cur, TRUE, configured_interval, lockOk, resetOk)
         IN  /\ Commit(m, connected, NULL)
             /\ lastOp' = Op("restore", dualsense_device, 0, 0, m.eng)
    /\ UNCHANGED << configured_interval, orig, phase, pc, tdev, leaked,
                    setter, faults >>

NextEngine ==
    \/ \E raw \in RawValues : SetRate(raw)
    \/ EngineRestore

SpecEngine == InitEngine /\ [][NextEngine]_vars

(***************************************************************************)
(* SpecConc: the notifier is registered and hotplug events are delivered   *)
(* on several threads (the notifier chain is called under a read lock, so  *)
(* callbacks for different devices run concurrently).  on_usb_notify is    *)
(* split at its reads and writes of dualsense_device; the module takes no  *)
(* lock of its own.  A thread handles one event at a time and a device has *)
(* one event in flight at a time.                                          *)
(***************************************************************************)
InitConc ==
    /\ InitData
    /\ phase = "running"
    /\ orig \in { o \in BusOrigs : o["d2"][2][1] = 1 }
    /\ bInterval = orig
    /\ dualsense_device = NULL
    /\ connected = [d \in Devices |-> FALSE]
    /\ held = [d \in Devices |-> 0]

InFlight(d) == \E t \in Threads : tdev[t] = d

Goto(t, label) == pc' = [pc EXCEPT ![t] = label]

Return(t) ==
    /\ pc' = [pc EXCEPT ![t] = "idle"]
    /\ tdev' = [tdev EXCEPT ![t] = NULL]

\* A device is plugged in; on_usb_notify(USB_DEVICE_ADD, d) starts on thread
\* t and runs the filter of line 146.
NotifyAdd(t, d) ==
    /\ Registered /\ pc[t] = "idle"
    /\ ~connected[d] /\ held[d] = 0 /\ ~InFlight(d)
    /\ connected' = [connected EXCEPT ![d] = TRUE]
    /\ IF Matches(d)
       THEN Goto(t, "add_check") /\ tdev' = [tdev EXCEPT ![t] = d]
       ELSE UNCHANGED << pc, tdev >>
    /\ UNCHANGED << dualsense_device, configured_interval, restore_infos,
                    num_actually_patched_eps, bInterval, orig, held, phase,
                    lastOp, lastCall, leaked,
                    setter, faults >>

\* Line 152: the read of dualsense_device.
AddCheck(t) ==
    /\ pc[t] = "add_check"
    /\ IF SlotIsFree(dualsense_device)
       THEN Goto(t, "add_acquire") /\ UNCHANGED tdev
       ELSE Return(t)
    /\ UNCHANGED << dualsense_device, configured_interval, restore_infos,
                    num_actually_patched_eps, bInterval, orig, connected, held,
                    phase, lastOp, lastCall, leaked,
                    setter, faults >>

\* Line 153: usb_get_dev and the write of dualsense_device.  A reference
\* the slot held is overwritten without a usb_put_dev.
AddAcquire(t) ==
    /\ pc[t] = "add_acquire"
    /\ held' = UsbGetDev(held, tdev[t])
    /\ dualsense_device' = tdev[t]
    /\ leaked' = IF dualsense_device = NULL THEN leaked
                 ELSE leaked \cup { dualsense_device }
    /\ Goto(t, "add_patch")
    /\ UNCHANGED << configured_interval, restore_infos,
                    num_actually_patched_eps, bInterval, orig, connected, phase,
                    lastOp, lastCall, tdev, setter, faults >>

\* Line 156: patch_or_restore_dualsense_endpoints(false), on the device the
\* slot holds now.
AddPatch(t) ==
    /\ pc[t] = "add_patch"
    /\ \E lockOk \in BOOLEAN, resetOk \in BOOLEAN :
         LET m == Engine(Cur, FALSE, configured_interval, lockOk, resetOk)
         IN  /\ Commit(m, connected, NULL)
    /\ Return(t)
    /\ UNCHANGED << configured_interval, orig, phase, lastOp, leaked,
                    setter, faults >>

\* A device is unplugged; on_usb_notify(USB_DEVICE_REMOVE, d) starts on
\* thread t and runs the filter of line 146.
NotifyRemove(t, d) ==
    /\ Registered /\ pc[t] = "idle"
    /\ connected[d] /\ ~InFlight(d)
    /\ connected' = [connected EXCEPT ![d] = FALSE]
    /\ bInterval' = Released(bInterval, d, connected', held)
    /\ IF Matches(d)
       THEN Goto(t, "rm_check") /\ tdev' = [tdev EXCEPT ![t] = d]
       ELSE UNCHANGED << pc, tdev >>
    /\ UNCHANGED << dualsense_device, configured_interval, restore_infos,
                    num_actually_patched_eps, orig, held, phase, lastOp,
                    lastCall, leaked,
                    setter, faults >>

\* Line 164: the read of dualsense_device.
RemoveCheck(t) ==
    /\ pc[t] = "rm_check"
    /\ IF dualsense_device = tdev[t]
       THEN Goto(t, "rm_put") /\ UNCHANGED tdev
       ELSE Return(t)
    /\ UNCHANGED << dualsense_device, configured_interval, restore_infos,
                    num_actually_patched_eps, bInterval, orig, connected, held,
                    phase, lastOp, lastCall, leaked,
                    setter, faults >>

\* Line 168: usb_put_dev(dualsense_device), on what the slot holds now.
RemovePut(t) ==
    /\ pc[t] = "rm_put"
    /\ held' = IF dualsense_device = NULL THEN held
               ELSE UsbPutDev(held, dualsense_device)
    /\ bInterval' = Released(bInterval, dualsense_device, connected, held')
    /\ Goto(t, "rm_clear")
    /\ UNCHANGED << dualsense_device, configured_interval, restore_infos,
                    num_actually_patched_eps, orig, connected, phase, lastOp,
                    lastCall, tdev, leaked,
                    setter, faults >>

\* Lines 169-170: the slot and the count are cleared.
RemoveClear(t) ==
    /\ pc[t] = "rm_clear"
    /\ dualsense_device' = NULL
    /\ num_actually_patched_eps' = 0
    /\ lastCall' = NoCall
    /\ Return(t)
    /\ UNCHANGED << configured_interval, restore_infos, bInterval, orig,
                    connected, held, phase, lastOp, leaked,
                    setter, faults >>

NextConc ==
    \/ \E t \in Threads, d \in Devices : NotifyAdd(t, d)
    \/ \E t \in Threads : AddCheck(t)
    \/ \E t \in Threads : AddAcquire(t)
    \/ \E t \in Threads : AddPatch(t)
    \/ \E t \in Threads, d \in Devices : NotifyRemove(t, d)
    \/ \E t \in Threads : RemoveCheck(t)
    \/ \E t \in Threads : RemovePut(t)
    \/ \E t \in Threads : RemoveClear(t)

SpecConc == InitConc /\ [][NextConc]_vars

(***************************************************************************)
(* The setter and the engine step by step.  on_interval_changed is split   *)
(* at its write of configured_interval (line 246), its clamp (249-255)     *)
(* and its read of dualsense_device (258); the engine at its entry check   *)
(* (line 30), its walk (35-117) and the three calls of its reset step      *)
(* (121, 126, 133).  The engine names the device through the global        *)
(* dualsense_device at every access; nothing orders these reads with the   *)
(* writes of the notifier, so an access may use the pointer read at line   *)
(* 30 or the one the slot holds now.  An access through a NULL pointer,    *)
(* one made after the slot stopped holding the device of line 30, or one   *)
(* made after that device's reference was released, is recorded in faults  *)
(* and ends the thread: what the kernel does after it is not followed.     *)
(***************************************************************************)
\* Line 133: the unlock is conditional on the result of the lock.
ShouldUnlock_Mut(lockOk) == TRUE

ShouldUnlock(lockOk) == lockOk

\* What an access through the pointer x runs into.
AccessFault(x) ==
    IF x = NULL THEN "null_deref"
    ELSE IF setter.dev # dualsense_device THEN "slot_changed"
    ELSE IF held[x] = 0 THEN "use_after_put"
    ELSE "none"

\* The pointers an access of the engine may use.
Pointers == { setter.dev, dualsense_device }

Oops(x) ==
    /\ faults' = faults \cup { AccessFault(x) }
    /\ setter' = [setter EXCEPT !.pc = "oops"]

\* Line 246: param_set_ushort writes the parsed value to configured_interval.
SetStore(raw) ==
    /\ phase \in {"running", "steps"}
    /\ setter.pc = "idle"
    /\ LET r == ParamSetUshort(raw, configured_interval)
       IN  /\ configured_interval' = r.value
           /\ setter' = IF r.ret = 0 THEN [setter EXCEPT !.pc = "clamp"]
                        ELSE setter
    /\ UNCHANGED << dualsense_device, restore_infos, num_actually_patched_eps,
                    bInterval, orig, connected, held, phase, lastOp, lastCall,
                    pc, tdev, leaked, faults >>

\* Lines 249-255.
SetClamp ==
    /\ setter.pc = "clamp"
    /\ configured_interval' = ClampInterval(configured_interval)
    /\ setter' = [setter EXCEPT !.pc = "check"]
    /\ UNCHANGED << dualsense_device, restore_infos, num_actually_patched_eps,
                    bInterval, orig, connected, held, phase, lastOp, lastCall,
                    pc, tdev, leaked, faults >>

\* Line 258: the read of dualsense_device; line 261 calls the engine.
SetCheck ==
    /\ setter.pc = "check"
    /\ setter' = IF dualsense_device # NULL
                 THEN [setter EXCEPT !.pc = "eng_entry", !.restore = FALSE]
                 ELSE [setter EXCEPT !.pc = "idle"]
    /\ UNCHANGED << dualsense_device, configured_interval, restore_infos,
                    num_actually_patched_eps, bInterval, orig, connected, held,
                    phase, lastOp, lastCall, pc, tdev, leaked, faults >>

\* patch_or_restore_dualsense_endpoints(true) is called, as at line 234.
RestoreCall ==
    /\ phase = "steps"
    /\ setter.pc = "idle"
    /\ setter' = [setter EXCEPT !.pc = "eng_entry", !.restore = TRUE]
    /\ UNCHANGED << dualsense_device, configured_interval, restore_infos,
                    num_actually_patched_eps, bInterval, orig, connected, held,
                    phase, lastOp, lastCall, pc, tdev, leaked, faults >>

\* Lines 30-33: the entry check.
EngEntry ==
    /\ setter.pc = "eng_entry"
    /\ setter' =
         IF dualsense_device = NULL \/ ActConfig(dualsense_device) = NULL
         THEN [SetterIdle EXCEPT !.restore = setter.restore]
         ELSE [SetterIdle EXCEPT !.restore = setter.restore,
                                 !.pc = "eng_walk",
                                 !.dev = dualsense_device]
    /\ UNCHANGED << dualsense_device, configured_interval, restore_infos,
                    num_actually_patched_eps, bInterval, orig, connected, held,
                    phase, lastOp, lastCall, pc, tdev, leaked, faults >>

\* Lines 35-117: the walk, which reads and writes the descriptors.
EngWalk ==
    /\ setter.pc = "eng_walk"
    /\ \E x \in Pointers :
         IF AccessFault(x) # "none"
         THEN /\ Oops(x)
              /\ UNCHANGED << bInterval, restore_infos,
                              num_actually_patched_eps, lastCall >>
         ELSE LET w == EngineWalk(Cur, setter.restore, configured_interval)
              IN  /\ bInterval' = [bInterval EXCEPT ![x] = w.ival]
                  /\ restore_infos' = w.infos
                  /\ num_actually_patched_eps' = w.num
                  /\ lastCall' = CallRecord(Cur, w, setter.restore,
                                            configured_interval,
                                            ResetStep(FALSE, FALSE, FALSE))
                  /\ setter' = [setter EXCEPT
                                  !.changed = w.changed,
                                  !.pc = IF w.changed THEN "eng_lock"
                                         ELSE "idle"]
                  /\ UNCHANGED faults
    /\ UNCHANGED << dualsense_device, configured_interval, orig, connected,
                    held, phase, lastOp, pc, tdev, leaked >>

\* Line 121: usb_lock_device_for_reset.
EngLock ==
    /\ setter.pc = "eng_lock"
    /\ \E x \in Pointers, lockOk \in BOOLEAN :
         IF AccessFault(x) # "none"
         THEN Oops(x)
         ELSE /\ setter' = [setter EXCEPT !.lockCalls = @ + 1,
                                          !.lockOk = lockOk,
                                          !.lockHeld = lockOk,
                                          !.pc = "eng_reset"]
              /\ UNCHANGED faults
    /\ UNCHANGED << dualsense_device, configured_interval, restore_infos,
                    num_actually_patched_eps, bInterval, orig, connected, held,
                    phase, lastOp, lastCall, pc, tdev, leaked >>

\* Line 126: usb_reset_device; what it returns is logged.
EngReset ==
    /\ setter.pc = "eng_reset"
    /\ \E x \in Pointers, resetOk \in BOOLEAN :
         IF AccessFault(x) # "none"
         THEN Oops(x)
         ELSE /\ setter' = [setter EXCEPT !.resetCalls = @ + 1,
                                          !.resetOk = resetOk,
                                          !.pc = "eng_unlock"]
              /\ UNCHANGED faults
    /\ UNCHANGED << dualsense_device, configured_interval, restore_infos,
                    num_actually_patched_eps, bInterval, orig, connected, held,
                    phase, lastOp, lastCall, pc, tdev, leaked >>

\* Lines 132-134: usb_unlock_device if the lock was obtained; the
\* invocation returns.
EngUnlock ==
    /\ setter.pc = "eng_unlock"
    /\ IF ShouldUnlock(setter.lockOk)
       THEN \E x \in Pointers :
              IF AccessFault(x) # "none"
              THEN Oops(x)
              ELSE /\ setter' = [setter EXCEPT !.unlockCalls = @ + 1,
                                               !.lockHeld = FALSE,
                                               !.pc = "idle"]
                   /\ UNCHANGED faults
       ELSE /\ setter' = [setter EXCEPT !.pc = "idle"]
            /\ UNCHANGED faults
    /\ UNCHANGED << dualsense_device, configured_interval, restore_infos,
                    num_actually_patched_eps, bInterval, orig, connected, held,
                    phase, lastOp, lastCall, pc, tdev, leaked >>

(***************************************************************************)
(* SpecSteps: a matching device has been acquired; the setter and the      *)
(* restoring call run step by step, one invocation at a time, with no      *)
(* hotplug event.                                                          *)
(***************************************************************************)
InitSteps ==
    /\ InitData
    /\ phase = "steps"
    /\ orig \in OrigChoices
    /\ bInterval = orig
    /\ dualsense_device \in { d \in Devices : Matches(d) }
    /\ connected = [d \in Devices |-> d = dualsense_device]
    /\ held = [d \in Devices |-> IF d = dualsense_device THEN 1 ELSE 0]

NextSteps ==
    \/ \E raw \in RawValues : SetStore(raw)
    \/ SetClamp
    \/ SetCheck
    \/ RestoreCall
    \/ EngEntry
    \/ EngWalk
    \/ EngLock
    \/ EngReset
    \/ EngUnlock

SpecSteps == InitSteps /\ [][NextSteps]_vars

(***************************************************************************)
(* SpecRace: the notifier is registered; hotplug events are handled on     *)
(* one thread, step by step as in SpecConc, while the 'rate' parameter is  *)
(* written on another (writes of a parameter are serialised by the         *)
(* kernel's parameter lock, which on_usb_notify does not take).            *)
(***************************************************************************)
NotifierThread == 1

\* What is written to 'rate': below the range, inside it, above it.
RaceValues == {0, 42, 256}

NextRace ==
    \/ \E d \in Devices : NotifyAdd(NotifierThread, d)
    \/ AddCheck(NotifierThread)
    \/ AddAcquire(NotifierThread)
    \/ AddPatch(NotifierThread)
    \/ \E d \in Devices : NotifyRemove(NotifierThread, d)
    \/ RemoveCheck(NotifierThread)
    \/ RemovePut(NotifierThread)
    \/ RemoveClear(NotifierThread)
    \/ \E raw \in RaceValues : SetStore(raw)
    \/ SetClamp
    \/ SetCheck
    \/ EngEntry
    \/ EngWalk
    \/ EngLock
    \/ EngReset
    \/ EngUnlock

SpecRace == InitConc /\ [][NextRace]_vars

(***************************************************************************)
(* Vocabulary of the properties.                                           *)
(***************************************************************************)
\* The references the module holds, over all devices.
HeldTotal == held["d1"] + held["d2"] + held["d3"] + held["d4"]

\* The interrupt endpoints <<i, e>> of the HID interface of d that the
\* engine walks, tabulated per device.
HidIntEpsTable ==
    [d \in Devices \cup {NULL} |->
        IF d = NULL \/ ActConfig(d) = NULL \/ HidInterface(ActConfig(d)) = 0 THEN {}
        ELSE LET i == HidInterface(ActConfig(d))
             IN  { << i, e >> : e \in { x \in 1 .. Len(ActConfig(d)[i].endpoint) :
                                         IsInterruptEp(ActConfig(d)[i].endpoint[x]) } }]

HidIntEps(d) == HidIntEpsTable[d]

AddrOf(d, ie) == ActConfig(d)[ie[1]].endpoint[ie[2]].bEndpointAddress

\* The Interval Store holds the entry (addr, v).
StoreHolds(infos, n, addr, v) ==
    \E k \in 1 .. n :
        infos[k] = [ep_address |-> addr, original_interval |-> v]

\* The Interval Store holds an entry for addr.
StoreHasAddr(infos, n, addr) ==
    \E k \in 1 .. n : infos[k].ep_address = addr

\* The step ran the handler `name` (every handler sets lastOp).
StepOf(name) == lastOp'.op = name

\* The step invoked the engine in patch mode / in restore mode.
PatchStep == lastOp'.engine /\ lastCall'.invoked /\ ~lastCall'.restore

RestoreStep == lastOp'.engine /\ lastCall'.invoked /\ lastCall'.restore

\* The module's data is the same before and after the step.
DataUnchanged ==
    UNCHANGED << dualsense_device, restore_infos, num_actually_patched_eps,
                 bInterval, held >>

(***************************************************************************)
(* C1  At most one device: the module never holds more than one acquired   *)
(* device, and an Add event (or an enumeration visit) for a matching       *)
(* device while a device is managed leaves the slot, the store, every      *)
(* endpoint interval and the reference counts as they are, without         *)
(* invoking the engine (so without a reset).                               *)
(***************************************************************************)
C1_VisitWhileManaged ==
    \A d \in Devices :
        (Matches(d) /\ dualsense_device # NULL) =>
            /\ OnUsbNotifyAdd(Cur, d, configured_interval, TRUE, TRUE) = Cur
            /\ CheckExistingDeviceCb(Cur, d, configured_interval, TRUE, TRUE).m = Cur

C1_AddWhileManaged ==
    (StepOf("add") /\ Matches(lastOp'.dev) /\ dualsense_device # NULL) =>
        (DataUnchanged /\ ~lastOp'.engine)

C1_AtMostOneDevice ==
    /\ [](HeldTotal <= 1 /\ C1_VisitWhileManaged)
    /\ [][C1_AddWhileManaged]_vars

\* A second matching device was added while another one was managed.
C1_Witness ==
    /\ lastOp.op = "add" /\ Matches(lastOp.dev)
    /\ dualsense_device # NULL /\ dualsense_device # lastOp.dev
    /\ connected[lastOp.dev] /\ held[lastOp.dev] = 0
    /\ HeldTotal = 1

(***************************************************************************)
(* C2  Patch/restore round trip, for a HID interface with at most          *)
(* MAX_PATCHED_EPS interrupt endpoints: a patch with target T sets every   *)
(* endpoint whose interval V differs from T to T and records (address, V); *)
(* a restore that follows the patch sets the endpoint back to V.           *)
(***************************************************************************)
C2_Patch ==
    (PatchStep /\ Cardinality(HidIntEps(dualsense_device')) <= MAX_PATCHED_EPS) =>
        LET d == dualsense_device'
            T == configured_interval'
        IN  \A ie \in HidIntEps(d) :
                LET V == lastCall'.before[ie[1]][ie[2]]
                IN  V # T =>
                      /\ bInterval'[d][ie[1]][ie[2]] = T
                      /\ StoreHolds(restore_infos', num_actually_patched_eps',
                                    AddrOf(d, ie), V)

C2_Restore ==
    (RestoreStep /\ lastCall.invoked /\ ~lastCall.restore
       /\ Cardinality(HidIntEps(dualsense_device)) <= MAX_PATCHED_EPS) =>
        LET d == dualsense_device
        IN  \A ie \in HidIntEps(d) :
                LET V == lastCall.before[ie[1]][ie[2]]
                IN  V # lastCall.target => bInterval'[d][ie[1]][ie[2]] = V

C2_RoundTrip == [][C2_Patch /\ C2_Restore]_vars

\* A restore after a patch wrote both endpoints of a DualSense back.
C2_Witness ==
    /\ lastOp.op = "restore" /\ lastCall.restore
    /\ Cardinality(HidIntEps(lastCall.dev)) = 2
    /\ lastCall.written = HidIntEps(lastCall.dev)
    /\ bInterval[lastCall.dev] = orig[lastCall.dev]

(***************************************************************************)
(* C3  When the module exits while a device is managed, every endpoint of  *)
(* that device has the interval the hardware reported before the device    *)
(* was acquired, whatever 'rate' was set to in between.                    *)
(***************************************************************************)
C3_ExitRestoresOriginal ==
    (lastOp.op = "exit" /\ lastOp.dev # NULL /\ connected[lastOp.dev]) =>
        bInterval[lastOp.dev] = orig[lastOp.dev]

(***************************************************************************)
(* C4  Reconfiguration re-baselines.  As claimed: for every endpoint the   *)
(* patch before wrote (target T1), after the next patch the store holds    *)
(* the entry (address, T1).                                                *)
(***************************************************************************)
C4_SecondPatch ==
    (PatchStep /\ lastCall.invoked /\ ~lastCall.restore) =>
        \A ie \in lastCall.written :
            StoreHolds(restore_infos', num_actually_patched_eps',
                       AddrOf(dualsense_device, ie), lastCall.target)

C4_AnyTargets == [][C4_SecondPatch]_vars

(***************************************************************************)
(* C4 as amended: the same for targets T1 # T2 and a HID interface with at *)
(* most MAX_PATCHED_EPS interrupt endpoints; a restore that follows sets   *)
(* every endpoint the latest patch wrote to the value that patch found,    *)
(* which is T1 and not what the hardware reported.                         *)
(***************************************************************************)
C4_SecondPatchAmended ==
    (PatchStep /\ lastCall.invoked /\ ~lastCall.restore
       /\ lastCall'.target # lastCall.target
       /\ Cardinality(HidIntEps(dualsense_device)) <= MAX_PATCHED_EPS) =>
        \A ie \in lastCall.written :
            /\ lastCall'.before[ie[1]][ie[2]] = lastCall.target
            /\ StoreHolds(restore_infos', num_actually_patched_eps',
                          AddrOf(dualsense_device, ie), lastCall.target)

C4_RestoreAfterPatch ==
    (RestoreStep /\ lastCall.invoked /\ ~lastCall.restore
       /\ Cardinality(HidIntEps(dualsense_device)) <= MAX_PATCHED_EPS) =>
        \A ie \in lastCall.written :
            bInterval'[dualsense_device][ie[1]][ie[2]]
                = lastCall.before[ie[1]][ie[2]]

C4_Rebaseline == [][C4_SecondPatchAmended /\ C4_RestoreAfterPatch]_vars

\* A restore put an endpoint back to a value that an earlier patch had
\* written, not to the value the hardware reported.
C4_Witness ==
    /\ lastCall.invoked /\ lastCall.restore
    /\ Cardinality(HidIntEps(lastCall.dev)) <= MAX_PATCHED_EPS
    /\ \E ie \in lastCall.written :
          /\ bInterval[lastCall.dev][ie[1]][ie[2]] # orig[lastCall.dev][ie[1]][ie[2]]
          /\ StoreHolds(restore_infos, num_actually_patched_eps,
                        AddrOf(lastCall.dev, ie),
                        bInterval[lastCall.dev][ie[1]][ie[2]])

(***************************************************************************)
(* C5  Capacity boundary.  As claimed: on a HID interface with three       *)
(* interrupt endpoints a patch leaves the third one (in descriptor order)  *)
(* at the interval it had, whatever the intervals and the target are, and  *)
(* no restore writes to it.                                                *)
(***************************************************************************)
\* The n-th interrupt endpoint of the HID interface of d, in descriptor
\* order, tabulated per device.
NthIntEpTable ==
    [d \in Devices |->
        [n \in 1 .. Cardinality(HidIntEps(d)) |->
            CHOOSE ie \in HidIntEps(d) :
                Cardinality({ x \in HidIntEps(d) : x[2] < ie[2] }) = n - 1]]

NthIntEp(d, n) == NthIntEpTable[d][n]

At(ival, ie) == ival[ie[1]][ie[2]]

ThreeEps(d) == d # NULL /\ Len(NthIntEpTable[d]) = MAX_PATCHED_EPS + 1

C5_ThirdUntouched ==
    (lastOp'.engine /\ lastCall'.invoked /\ ThreeEps(dualsense_device)) =>
        /\ At(bInterval'[dualsense_device], NthIntEp(dualsense_device, 3))
             = At(bInterval[dualsense_device], NthIntEp(dualsense_device, 3))
        /\ NthIntEp(dualsense_device, 3) \notin lastCall'.written

C5_AnyIntervals == [][C5_ThirdUntouched]_vars

(***************************************************************************)
(* C5 as amended: when the intervals of the first two interrupt endpoints  *)
(* both differ from the target, the patch leaves the third endpoint at the *)
(* interval it had and records no entry for it, and the restore that       *)
(* follows that patch does not write to it.                                *)
(***************************************************************************)
\* The patch recorded in call found the first two endpoints off the target.
FirstTwoOffTarget(call) ==
    /\ At(call.before, NthIntEp(call.dev, 1)) # call.target
    /\ At(call.before, NthIntEp(call.dev, 2)) # call.target

C5_PatchSkipsThird ==
    (PatchStep /\ ThreeEps(dualsense_device') /\ FirstTwoOffTarget(lastCall')) =>
        LET d == dualsense_device'
            third == NthIntEp(d, 3)
        IN  /\ At(bInterval'[d], third) = At(lastCall'.before, third)
            /\ third \notin lastCall'.written
            /\ ~StoreHasAddr(restore_infos', num_actually_patched_eps',
                             AddrOf(d, third))

C5_RestoreSkipsThird ==
    (RestoreStep /\ lastCall.invoked /\ ~lastCall.restore
       /\ ThreeEps(dualsense_device) /\ FirstTwoOffTarget(lastCall)) =>
        LET d == dualsense_device
            third == NthIntEp(d, 3)
        IN  /\ At(bInterval'[d], third) = At(bInterval[d], third)
            /\ third \notin lastCall'.written

C5_CapacityBoundary == [][C5_PatchSkipsThird /\ C5_RestoreSkipsThird]_vars

\* A restore after a patch that wrote the first two of three endpoints: the
\* third one differs from the target and was left alone by both.
C5_Witness ==
    /\ lastCall.invoked /\ lastCall.restore /\ ThreeEps(lastCall.dev)
    /\ lastCall.written = { NthIntEp(lastCall.dev, 1), NthIntEp(lastCall.dev, 2) }
    /\ At(bInterval[lastCall.dev], NthIntEp(lastCall.dev, 3)) # lastCall.target
    /\ bInterval[lastCall.dev] = orig[lastCall.dev]

(***************************************************************************)
(* C6  Restore clears the record.  As claimed: once a restore has set an   *)
(* endpoint back, the store holds no entry (its count is 0).               *)
(***************************************************************************)
C6_RestoreClears ==
    (lastCall.invoked /\ lastCall.restore /\ lastCall.written # {}) =>
        num_actually_patched_eps = 0

(***************************************************************************)
(* C6 as amended: a restore leaves the store as it is (same count, same    *)
(* entries); for every endpoint it set back (of a device that is on the    *)
(* bus) the store still holds the entry with the value that is now in the  *)
(* endpoint.                                                               *)
(***************************************************************************)
C6_RestoreStep ==
    RestoreStep =>
        /\ UNCHANGED << restore_infos, num_actually_patched_eps >>
        /\ connected[lastCall'.dev] =>
              \A ie \in lastCall'.written :
                  StoreHolds(restore_infos', num_actually_patched_eps',
                             AddrOf(lastCall'.dev, ie),
                             At(bInterval'[lastCall'.dev], ie))

C6_RestoreKeepsRecord == [][C6_RestoreStep]_vars

\* ds_oc_exit restored an endpoint and the store still counts its entry.
C6_Witness ==
    /\ lastOp.op = "exit" /\ lastCall.restore /\ lastCall.written # {}
    /\ num_actually_patched_eps > 0
    /\ dualsense_device = NULL /\ connected[lastOp.dev]

(***************************************************************************)
(* C7  Restore is idempotent: a restore that directly follows a restore    *)
(* writes no interval, reports no change and calls neither lock, reset nor *)
(* unlock.                                                                 *)
(***************************************************************************)
C7_SecondRestore ==
    (StepOf("restore") /\ RestoreStep /\ lastOp.op = "restore") =>
        /\ bInterval' = bInterval
        /\ lastCall'.written = {}
        /\ ~lastCall'.changed
        /\ lastCall'.lockCalls = 0
        /\ lastCall'.resetCalls = 0
        /\ lastCall'.unlockCalls = 0

C7_RestoreIdempotent == [][C7_SecondRestore]_vars

\* The latest restore wrote nothing although the store holds an entry for
\* an endpoint that is off the target: an earlier restore had set it back.
C7_Witness ==
    /\ lastOp.op = "restore" /\ lastCall.restore /\ lastCall.written = {}
    /\ \E ie \in HidIntEps(lastCall.dev) :
          /\ At(bInterval[lastCall.dev], ie) # configured_interval
          /\ StoreHolds(restore_infos, num_actually_patched_eps,
                        AddrOf(lastCall.dev, ie), At(bInterval[lastCall.dev], ie))

(***************************************************************************)
(* C8  Clamping: a write of r in 0..65535 to 'rate' succeeds and leaves    *)
(* the target at 1 for r = 0, at 255 for r > 255 and at r otherwise; the   *)
(* target is in 1..255 after ds_oc_init and whenever no setter is running. *)
(***************************************************************************)
C8_Expected(r) ==
    IF r = 0 THEN 1 ELSE IF r > 255 THEN 255 ELSE r

C8_SetterStep ==
    (StepOf("setrate") /\ lastOp'.raw \in 0 .. 65535) =>
        /\ configured_interval' = C8_Expected(lastOp'.raw)
        /\ lastOp'.ret = 0

C8_InitStep ==
    StepOf("enumerate") => configured_interval' \in 1 .. 255

C8_Clamping ==
    /\ [](configured_interval \in 1 .. 255)
    /\ [][C8_SetterStep /\ C8_InitStep]_vars

\* 9999 was written to 'rate' while a device was managed: the target is 255
\* and the endpoints were patched to it.
C8_Witness ==
    /\ lastOp.op = "setrate" /\ lastOp.raw = 9999 /\ lastOp.ret = 0
    /\ configured_interval = 255
    /\ lastOp.engine /\ lastCall.target = 255 /\ lastCall.changed

(***************************************************************************)
(* C9  No reset without a change: an invocation of the engine calls the    *)
(* reset if and only if it wrote an endpoint interval; a patch whose       *)
(* target equals the interval of every interrupt endpoint of the HID       *)
(* interface reports no change and calls neither lock, reset nor unlock.   *)
(***************************************************************************)
C9_EngineStep ==
    lastOp'.engine =>
        /\ lastCall'.resetCalls = (IF bInterval' # bInterval THEN 1 ELSE 0)
        /\ lastCall'.changed <=> (bInterval' # bInterval)
        /\ ( PatchStep
             /\ \A ie \in HidIntEps(dualsense_device) :
                   At(bInterval[dualsense_device], ie) = configured_interval' )
           => /\ ~lastCall'.changed
              /\ lastCall'.lockCalls = 0
              /\ lastCall'.resetCalls = 0
              /\ lastCall'.unlockCalls = 0

C9_NoResetOnNoChange == [][C9_EngineStep]_vars

\* A patch found every interrupt endpoint at the target and did not reset.
C9_Witness ==
    /\ lastOp.op = "setrate" /\ lastOp.engine
    /\ lastCall.invoked /\ ~lastCall.restore /\ ~lastCall.changed
    /\ lastCall.resetCalls = 0 /\ lastCall.lockCalls = 0
    /\ HidIntEps(lastCall.dev) # {}
    /\ \A ie \in HidIntEps(lastCall.dev) :
          At(lastCall.before, ie) = lastCall.target

(***************************************************************************)
(* C10  No double acquisition under concurrency: however two Add events    *)
(* interleave, the module holds at most one reference, and no reference    *)
(* in the slot is overwritten without being released.                      *)
(***************************************************************************)
C10_NoDoubleAcquire ==
    /\ HeldTotal <= 1
    /\ leaked = {}

(***************************************************************************)
(* C11  A configuration change never patches a torn-down device: however   *)
(* the setter interleaves with the Remove of the managed device, every     *)
(* access of the engine to the device (descriptor reads and writes, lock,  *)
(* reset, unlock) is made while the slot holds that device and the         *)
(* module owns its reference.                                              *)
(***************************************************************************)
C11_NoAccessAfterTeardown == faults = {}

(***************************************************************************)
(* C12  Scoped reset lock: in every engine invocation that changed an      *)
(* endpoint, whatever usb_lock_device_for_reset and usb_reset_device       *)
(* return, the lock and the reset are each attempted exactly once (the     *)
(* reset also when the lock was not obtained), the unlock is called        *)
(* exactly once if the lock was obtained and not at all otherwise, and     *)
(* the lock is held neither during the walk nor when the invocation has    *)
(* returned.                                                               *)
(***************************************************************************)
\* The latest invocation has returned (its record is kept until the next
\* one passes line 30).
Returned == setter.pc \in {"idle", "clamp", "check", "eng_entry"}

C12_ScopedResetLock ==
    /\ setter.pc \in {"eng_walk", "eng_lock"} => ~setter.lockHeld
    /\ Returned => ~setter.lockHeld
    /\ Returned /\ setter.changed =>
          /\ setter.lockCalls = 1
          /\ setter.resetCalls = 1
          /\ setter.unlockCalls = IF setter.lockOk THEN 1 ELSE 0

\* An invocation wrote an endpoint, was refused the lock, reset the device
\* all the same (the reset failed too) and returned without unlocking.
C12_Witness ==
    /\ setter.pc = "idle" /\ setter.changed
    /\ lastCall.invoked /\ lastCall.written # {}
    /\ ~setter.lockOk /\ ~setter.resetOk
    /\ setter.resetCalls = 1 /\ setter.unlockCalls = 0

(***************************************************************************)
(* C13  Disconnect transition: a Remove event for the managed device       *)
(* empties the slot, releases the reference exactly once and sets the      *)
(* store count to 0, without running the engine (no endpoint interval is   *)
(* written, no reset is made); an Add event for a matching device that     *)
(* finds the slot empty acquires it and patches it with a fresh store      *)
(* generation (the store counts exactly the endpoints this patch wrote,    *)
(* each with the interval it had when the patch began).  The descriptors   *)
(* of the removed device go away with its object; those of every other     *)
(* device are as they were.                                                *)
(***************************************************************************)
C13_RemoveStep ==
    StepOf("remove") /\ dualsense_device # NULL
                     /\ lastOp'.dev = dualsense_device =>
        /\ dualsense_device' = NULL
        /\ held'[lastOp'.dev] = held[lastOp'.dev] - 1
        /\ HeldTotal' = 0
        /\ num_actually_patched_eps' = 0
        /\ ~lastOp'.engine /\ ~lastCall'.invoked
        /\ restore_infos' = restore_infos
        /\ configured_interval' = configured_interval
        /\ \A d \in Devices \ { lastOp'.dev } : bInterval'[d] = bInterval[d]

C13_AddStep ==
    StepOf("add") /\ Matches(lastOp'.dev) /\ dualsense_device = NULL =>
        /\ dualsense_device' = lastOp'.dev
        /\ held' = [held EXCEPT ![lastOp'.dev] = 1]
        /\ PatchStep
        /\ lastCall'.dev = lastOp'.dev
        /\ lastCall'.before = bInterval[lastOp'.dev]
        /\ num_actually_patched_eps' = Cardinality(lastCall'.written)
        /\ \A ie \in lastCall'.written :
              StoreHolds(restore_infos', num_actually_patched_eps',
                         AddrOf(lastOp'.dev, ie), At(lastCall'.before, ie))

C13_DisconnectTransition == [][C13_RemoveStep /\ C13_AddStep]_vars

\* d1 was patched and then removed: the slot is empty, no reference is
\* held, the count is 0 and the entries of the patch are still in the array.
C13_Witness ==
    /\ lastOp.op = "remove" /\ lastOp.dev = "d1" /\ ~lastOp.engine
    /\ dualsense_device = NULL /\ HeldTotal = 0
    /\ num_actually_patched_eps = 0
    /\ restore_infos[1].ep_address = AddrOf("d1", NthIntEp("d1", 1))
    /\ \A d \in Devices : ~connected[d]

(***************************************************************************)
(* C14  Failures of the reset step do not change the in-memory result:     *)
(* for the same data before an invocation and the same mode, the endpoint  *)
(* intervals, the store, the slot and the references after it are the      *)
(* same whether the lock and the reset succeed or fail.                    *)
(***************************************************************************)
C14_EngineStep ==
    lastOp'.engine /\ lastCall'.invoked =>
        \A m \in { Engine(Cur, lastCall'.restore, configured_interval',
                          lockOk, resetOk) :
                       lockOk \in BOOLEAN, resetOk \in BOOLEAN } :
            /\ bInterval' = m.ival
            /\ restore_infos' = m.infos
            /\ num_actually_patched_eps' = m.num
            /\ dualsense_device' = m.dev
            /\ held' = m.held

C14_ResetFailureKeepsResult == [][C14_EngineStep]_vars

\* A patch to 42 wrote two endpoints and was refused the lock: the
\* endpoints hold 42, the store has both entries, the device is managed.
C14_Witness ==
    /\ lastOp.op = "setrate" /\ lastOp.engine
    /\ lastCall.invoked /\ ~lastCall.restore /\ lastCall.changed
    /\ lastCall.resetCalls = 1 /\ lastCall.unlockCalls = 0
    /\ lastCall.target = 42
    /\ Cardinality(lastCall.written) = 2
    /\ \A ie \in lastCall.written :
          /\ At(bInterval[lastCall.dev], ie) = 42
          /\ StoreHolds(restore_infos, num_actually_patched_eps,
                        AddrOf(lastCall.dev, ie), At(lastCall.before, ie))
    /\ dualsense_device = lastCall.dev /\ held[lastCall.dev] = 1

(***************************************************************************)
(* C15  Store invariant: whenever a device is managed (and no engine       *)
(* invocation is in progress) the store holds at most MAX_PATCHED_EPS      *)
(* entries, their addresses are pairwise distinct, and each is the address *)
(* of an interrupt endpoint of the managed device's HID interface whose    *)
(* current interval differs from the original value the entry records.     *)
(***************************************************************************)
C15_StoreInvariant ==
    dualsense_device # NULL =>
        /\ num_actually_patched_eps <= MAX_PATCHED_EPS
        /\ \A j \in 1 .. num_actually_patched_eps :
              /\ \A k \in 1 .. num_actually_patched_eps :
                    j # k =>
                       restore_infos[j].ep_address # restore_infos[k].ep_address
              /\ \E ie \in HidIntEps(dualsense_device) :
                    /\ AddrOf(dualsense_device, ie) = restore_infos[j].ep_address
                    /\ At(bInterval[dualsense_device], ie) #
                          restore_infos[j].original_interval

\* d2 (three interrupt endpoints) is managed after a change of 'rate' and
\* the store is full.
C15_Witness ==
    /\ dualsense_device = "d2" /\ lastOp.op = "setrate"
    /\ num_actually_patched_eps = MAX_PATCHED_EPS
    /\ \A n \in 1 .. MAX_PATCHED_EPS :
          /\ restore_infos[n].ep_address = AddrOf("d2", NthIntEp("d2", n))
          /\ restore_infos[n].original_interval = 1
          /\ At(bInterval["d2"], NthIntEp("d2", n)) = 42

(***************************************************************************)
(* C16  Runtime reconfiguration re-patches at once: when the setter has    *)
(* accepted a value while a device with at most MAX_PATCHED_EPS            *)
(* qualifying endpoints is managed, every interrupt endpoint of its HID    *)
(* interface holds the new clamped target, and the reset was attempted     *)
(* exactly when some endpoint differed from that target before; when no    *)
(* device is managed only the target changes.                              *)
(***************************************************************************)
C16_SetterStep ==
    StepOf("setrate") /\ lastOp'.ret = 0 =>
        /\ configured_interval' = ClampInterval(lastOp'.raw)
        /\ IF dualsense_device = NULL
           THEN DataUnchanged /\ ~lastOp'.engine /\ lastCall' = lastCall
           ELSE Cardinality(HidIntEps(dualsense_device)) <= MAX_PATCHED_EPS =>
                  /\ dualsense_device' = dualsense_device
                  /\ held' = held
                  /\ PatchStep
                  /\ \A ie \in HidIntEps(dualsense_device) :
                        At(bInterval'[dualsense_device], ie) =
                           configured_interval'
                  /\ lastCall'.resetCalls \in {0, 1}
                  /\ lastCall'.resetCalls = 1 <=>
                        \E ie \in HidIntEps(dualsense_device) :
                           At(bInterval[dualsense_device], ie) #
                              configured_interval'

C16_ReconfigureRepatches == [][C16_SetterStep]_vars

\* 'rate' was written 256 while d1 was managed: both endpoints hold 255 and
\* the device was reset.
C16_Witness ==
    /\ lastOp.op = "setrate" /\ lastOp.ret = 0 /\ lastOp.raw = 256
    /\ lastOp.dev = "d1" /\ dualsense_device = "d1"
    /\ configured_interval = 255
    /\ HidIntEps("d1") # {}
    /\ \A ie \in HidIntEps("d1") : At(bInterval["d1"], ie) = 255
    /\ lastCall.resetCalls = 1

(***************************************************************************)
(* C17  Ignored events change nothing: an Add or Remove event for a        *)
(* device that does not match, and a Remove event for a matching device    *)
(* that is not the managed one, leave the slot, the references, the        *)
(* store and every endpoint interval as they were and make no reset.       *)
(***************************************************************************)
\* The device is of another vendor or product.
Foreign(d) ==
    Descriptor(d).idVendor # DS_VID \/ Descriptor(d).idProduct # DS_PID

C17_IgnoredStep ==
    \/ (StepOf("add") \/ StepOf("remove")) /\ Foreign(lastOp'.dev)
    \/ StepOf("remove") /\ lastOp'.dev # dualsense_device
    => /\ DataUnchanged
       /\ ~lastOp'.engine
       /\ lastCall' = lastCall
       /\ configured_interval' = configured_interval

C17_IgnoredEvents == [][C17_IgnoredStep]_vars

\* d4 (matching) was removed while d1 was managed and patched to 42.
C17_Witness ==
    /\ lastOp.op = "remove" /\ lastOp.dev = "d4" /\ ~connected["d4"]
    /\ dualsense_device = "d1" /\ held["d1"] = 1
    /\ num_actually_patched_eps = 2
    /\ \A ie \in HidIntEps("d1") : At(bInterval["d1"], ie) = 42

(***************************************************************************)
(* C18  Only validated targets reach the device: however the setter        *)
(* interleaves with Add events, a Patch never reads the target between    *)
(* the store of the raw value and its clamp, and every value a Patch       *)
(* writes into an endpoint interval is in 1..255.                          *)
(***************************************************************************)
C18_OnlyValidatedTargets ==
    lastCall.invoked /\ ~lastCall.restore /\ HidIntEps(lastCall.dev) # {} =>
        /\ lastCall.target \in 1 .. 255
        /\ lastCall.written # {} => ToU8(lastCall.target) \in 1 .. 255

(***************************************************************************)
(* C19  Reference balance: with the handlers atomic, the module holds      *)
(* exactly one reference, on the device in the slot, when the slot is      *)
(* non-empty and none when it is empty; a reference is only released on    *)
(* the device the slot holds, once, and the slot is emptied with it;       *)
(* after exit no reference is held and the slot is empty.                  *)
(***************************************************************************)
C19_Balanced ==
    /\ \A d \in Devices : held[d] = IF d = dualsense_device THEN 1 ELSE 0
    /\ phase = "unloaded" => dualsense_device = NULL /\ HeldTotal = 0

C19_ReleaseStep ==
    \A d \in Devices :
        held'[d] < held[d] =>
            /\ d = dualsense_device
            /\ held'[d] = held[d] - 1
            /\ dualsense_device' = NULL

C19_ReferenceBalance == [] C19_Balanced /\ [][C19_ReleaseStep]_vars

\* The module was unloaded while it managed a device: the reference was
\* given back.
C19_Witness ==
    /\ phase = "unloaded" /\ lastOp.op = "exit" /\ lastOp.dev # NULL
    /\ dualsense_device = NULL /\ HeldTotal = 0

(***************************************************************************)
(* C20  No hotplug event is lost around startup: however init (enumerate,  *)
(* then register the notifier) interleaves with the plugging and           *)
(* unplugging of devices, once init has returned the slot is non-empty     *)
(* only if the device it holds is still connected.                         *)
(***************************************************************************)
C20_NoLostRemove ==
    phase = "running" /\ dualsense_device # NULL =>
        connected[dualsense_device]

====
